---- MODULE Spec2Model ----
(***************************************************************************)
(* Waveform data service of neuro-viewer/backend: the in-memory store      *)
(* (services/waveform_loader.py), the chunk / spikes / data routes and the *)
(* playback websocket session (routes/playback.py).                        *)
(***************************************************************************)
EXTENDS Integers, Sequences, FiniteSets, TLC

VARIABLES
    waveforms,       \* WaveformLoader.waveforms : file_id -> array of samples
    metadata,        \* WaveformLoader.metadata  : file_id -> metadata dict
    response,        \* the last request served and what it returned
    pc,              \* playback session: where the coroutine is
    file_id,         \* playback session: path parameter
    position,        \* playback session: sample cursor
    playing,         \* playback session: playing flag
    total_length,    \* playback session: metadata["length"] read on accept
    sampling_rate,   \* playback session: metadata["sampling_rate"] read on accept
    inbox,           \* texts the client has sent and the session has not received
    sent,            \* the last message the session sent to the client
    nMetadata,       \* number of metadata messages sent
    nChunks,         \* number of chunk messages sent
    nErrors,         \* number of error messages sent
    lastSeek,        \* history: the target of the last frame received, if it was a seek
    chunksSinceCmd,  \* history: chunks sent since the last frame was received (capped at 2)
    repositioned,    \* history: a seek or a play with a position was received
    cmdInRange       \* history: every position received was within [0, total_length]

storeVars == <<waveforms, metadata>>
sessionVars == <<pc, file_id, position, playing, total_length, sampling_rate,
                 inbox, sent, nMetadata, nChunks, nErrors,
                 lastSeek, chunksSinceCmd, repositioned, cmdInRange>>
vars == <<waveforms, metadata, response, pc, file_id, position, playing,
          total_length, sampling_rate, inbox, sent, nMetadata, nChunks, nErrors,
          lastSeek, chunksSinceCmd, repositioned, cmdInRange>>

\* Python's None and a present value: an optional is a sequence of length 0 or 1
None == <<>>

Some(v) == <<v>>

Min(a, b) == IF a < b THEN a ELSE b

Max(a, b) == IF a > b THEN a ELSE b

(***************************************************************************)
(* Bounds of the model.                                                    *)
(***************************************************************************)
MaxLen == 5          \* longest recording of the read-path specifications
MaxPickleLen == 2    \* longest array ingested in the store specification
MaxHeaderLen == 4    \* longest Range header, in tokens
MaxInbox == 1        \* control messages in flight to a playback session
MaxChunks == 4       \* chunks one playback session emits
ShortLen == 300      \* the short recording played back
LongLen == 1500      \* the long recording played back

FileIds == {"f1", "f2"}

SampleValues == {0, 1}

Thresholds == {0, 1}

RECURSIVE SeqsUpTo(_, _)
SeqsUpTo(S, n) ==
    IF n = 0 THEN {<<>>}
    ELSE LET shorter == SeqsUpTo(S, n - 1)
         IN  shorter \cup {Append(s, x) : s \in {t \in shorter : Len(t) = n - 1}, x \in S}

(***************************************************************************)
(* Python and numpy primitives the handlers use.                           *)
(***************************************************************************)
\* a[start:stop] on a sequence of length n: negative indices count from the
\* end, every index is clamped into [0, n]
SliceIndex(i, n) == IF i < 0 THEN Max(i + n, 0) ELSE Min(i, n)

PySlice(s, start, stop) ==
    LET n  == Len(s)
        lo == SliceIndex(start, n)
        hi == SliceIndex(stop, n)
    IN  IF lo >= hi THEN <<>> ELSE SubSeq(s, lo + 1, hi)

Elements(s) == {s[i] : i \in 1..Len(s)}

\* np.min and np.max of a non-empty array
SeqMin(s) == CHOOSE x \in Elements(s) : \A y \in Elements(s) : x <= y

SeqMax(s) == CHOOSE x \in Elements(s) : \A y \in Elements(s) : x >= y

\* ndarray.flatten(): row-major concatenation of the rows
RECURSIVE Flatten(_)
Flatten(rows) == IF rows = <<>> THEN <<>> ELSE Head(rows) \o Flatten(Tail(rows))

\* one sample as little-endian IEEE-754 binary32
Float32Bytes(v) ==
    CASE v = 0 -> <<0, 0, 0, 0>>
      [] v = 1 -> <<0, 0, 128, 63>>
      [] v = 2 -> <<0, 0, 0, 64>>
      [] v = -1 -> <<0, 0, 128, 191>>

\* waveform.astype(np.float32).tobytes()
RECURSIVE ToBytes(_)
ToBytes(w) == IF w = <<>> THEN <<>> ELSE Float32Bytes(Head(w)) \o ToBytes(Tail(w))

(***************************************************************************)
(* WaveformLoader                                                          *)
(***************************************************************************)
Put(f, k, v) == [x \in DOMAIN f \cup {k} |-> IF x = k THEN v ELSE f[x]]

EmptyStore == [waveforms |-> <<>>, metadata |-> <<>>]

\* what pickle.loads can return: it raises, it returns an object that is no
\* ndarray, or an ndarray of one or two dimensions
Arrays1D(n) == {[kind |-> "ndarray", ndim |-> 1, data |-> w] : w \in SeqsUpTo(SampleValues, n)}

Arrays2D == {[kind |-> "ndarray", ndim |-> 2, data |-> <<r1, r2>>] :
                r1 \in {<<x>> : x \in SampleValues}, r2 \in {<<x>> : x \in SampleValues}}

PickleInputs ==
    {[kind |-> "corrupt"], [kind |-> "object"]} \cup Arrays1D(MaxPickleLen) \cup Arrays2D

\* load_from_pickle: the store and the outcome it leaves
LoadFromPickleResult(st, id, data) ==
    IF data.kind # "ndarray"
    THEN [store |-> st, raised |-> TRUE, returned |-> None]
    ELSE LET waveform == IF data.ndim # 1 THEN Flatten(data.data) ELSE data.data
             stored   == Put(st.waveforms, id, waveform)
         IN  IF waveform = <<>>
             THEN \* np.min of an empty array raises after the array was stored
                  [store |-> [waveforms |-> stored, metadata |-> st.metadata],
                   raised |-> TRUE, returned |-> None]
             ELSE LET md == [length |-> Len(waveform), sampling_rate |-> 30000,
                             min |-> SeqMin(waveform), max |-> SeqMax(waveform)]
                  IN  [store |-> [waveforms |-> stored, metadata |-> Put(st.metadata, id, md)],
                       raised |-> FALSE, returned |-> Some(md)]

LoaderGetMetadata(md, id) == IF id \in DOMAIN md THEN Some(md[id]) ELSE None

ChunkEnd_Inclusive(start, duration, n) == Min(start + duration, n - 1)

ChunkEnd(start, duration, n) == Min(start + duration, n)

LoaderGetChunk(wf, id, start, duration) ==
    IF id \notin DOMAIN wf THEN None
    ELSE Some(PySlice(wf[id], start, ChunkEnd(start, duration, Len(wf[id]))))

\* np.where(chunk > threshold)[0]: the 0-based indices, ascending
Crossings(chunk, threshold) ==
    SelectSeq([i \in 1..Len(chunk) |-> i - 1], LAMBDA i : chunk[i + 1] > threshold)

StartsNewSpike_EveryCrossing(prev, cur) == cur - prev >= 1

StartsNewSpike(prev, cur) == cur - prev > 1

MergeRuns(crossings) ==
    LET kept == SelectSeq([i \in 1..Len(crossings) |-> i],
                          LAMBDA i : i = 1 \/ StartsNewSpike(crossings[i - 1], crossings[i]))
    IN  [k \in 1..Len(kept) |-> crossings[kept[k]]]

LoaderGetSpikes(wf, id, threshold, start, end) ==
    IF id \notin DOMAIN wf THEN <<>>
    ELSE LET w      == wf[id]
             e      == IF end = None THEN Len(w) ELSE end[1]
             chunk  == PySlice(w, start, e)
             spikes == MergeRuns(Crossings(chunk, threshold))
         IN  [k \in 1..Len(spikes) |-> start + spikes[k]]

(***************************************************************************)
(* routes/data.py: the Range header, as a sequence of tokens               *)
(***************************************************************************)
Digits == {"0", "2", "9"}

HeaderTokens == {"bytes=", "-", "x"} \cup Digits

Headers == {None} \cup {Some(h) : h \in SeqsUpTo(HeaderTokens, MaxHeaderLen)}

DigitValue(t) == CASE t = "0" -> 0 [] t = "2" -> 2 [] t = "9" -> 9

\* range_header.replace("bytes=", "")
StripUnit(header) == SelectSeq(header, LAMBDA t : t # "bytes=")

\* str.split("-"): always at least one part
RECURSIVE SplitOnDash(_)
SplitOnDash(s) ==
    IF \A i \in 1..Len(s) : s[i] # "-" THEN <<s>>
    ELSE LET k == CHOOSE i \in 1..Len(s) : s[i] = "-" /\ \A j \in 1..(i - 1) : s[j] # "-"
         IN  <<SubSeq(s, 1, k - 1)>> \o SplitOnDash(SubSeq(s, k + 1, Len(s)))

\* int(text) succeeds on a non-empty run of digits (no sign can survive the split)
IsInt(s) == s # <<>> /\ \A i \in 1..Len(s) : s[i] \in Digits

RECURSIVE IntOf(_)
IntOf(s) == IF s = <<>> THEN 0 ELSE 10 * IntOf(SubSeq(s, 1, Len(s) - 1)) + DigitValue(s[Len(s)])

DataResponse(id, header, status, body, range) ==
    [op |-> "data", file_id |-> id, header |-> header, status |-> status,
     body |-> body, content_range |-> range]

GetBinaryDataResponse(wf, md, id, header) ==
    IF id \notin DOMAIN wf THEN DataResponse(id, header, 404, <<>>, None)
    ELSE IF id \notin DOMAIN md THEN DataResponse(id, header, 500, <<>>, None)  \* KeyError
    ELSE LET full_data   == ToBytes(wf[id])
             total_bytes == Len(full_data)
         IN  IF header # None /\ header[1] # <<>>
             THEN LET parts == SplitOnDash(StripUnit(header[1]))
                  IN  IF Len(parts) # 2
                      THEN DataResponse(id, header, 400, <<>>, None)
                      ELSE IF (parts[1] # <<>> /\ ~IsInt(parts[1]))
                              \/ (parts[2] # <<>> /\ ~IsInt(parts[2]))
                      THEN DataResponse(id, header, 400, <<>>, None)
                      ELSE LET start == IF parts[1] # <<>> THEN IntOf(parts[1]) ELSE 0
                               end0  == IF parts[2] # <<>> THEN IntOf(parts[2])
                                        ELSE total_bytes - 1
                           IN  IF start < 0 \/ start >= total_bytes
                               THEN DataResponse(id, header, 416, <<>>, None)
                               ELSE LET end == Min(end0, total_bytes - 1)
                                    IN  DataResponse(id, header, 206,
                                            PySlice(full_data, start, end + 1),
                                            Some([start |-> start, end |-> end,
                                                  total |-> total_bytes]))
             ELSE DataResponse(id, header, 200, full_data, None)

(***************************************************************************)
(* Request handlers as actions: a handler runs when no response is being   *)
(* written, and the response it returns is then delivered to the client    *)
(***************************************************************************)
NoResponse == [op |-> "none"]

ResponseDelivered ==
    /\ response # NoResponse
    /\ response' = NoResponse
    /\ UNCHANGED <<storeVars, sessionVars>>

Starts == (-2)..(MaxLen + 1)

Durations == (-2)..(MaxLen + 1)

Ends == {None} \cup {Some(e) : e \in Starts}

LoadFromPickle(id, data) ==
    LET st  == [waveforms |-> waveforms, metadata |-> metadata]
        res == LoadFromPickleResult(st, id, data)
    IN  /\ response = NoResponse
        /\ waveforms' = res.store.waveforms
        /\ metadata' = res.store.metadata
        /\ response' = [op |-> "load", file_id |-> id, data |-> data,
                        raised |-> res.raised, returned |-> res.returned, before |-> st]
        /\ UNCHANGED sessionVars

GetMetadataRoute(id) ==
    LET md == LoaderGetMetadata(metadata, id)
    IN  /\ response = NoResponse
        /\ response' = [op |-> "metadata", file_id |-> id,
                        status |-> IF md = None THEN 404 ELSE 200, body |-> md]
        /\ UNCHANGED <<storeVars, sessionVars>>

GetChunkRoute(id, start, duration) ==
    LET chunk == LoaderGetChunk(waveforms, id, start, duration)
    IN  /\ response = NoResponse
        /\ response' =
             IF chunk = None
             THEN [op |-> "chunk", file_id |-> id, start |-> start, duration |-> duration,
                   status |-> 404, samples |-> <<>>, body |-> <<>>, sample_count |-> 0]
             ELSE [op |-> "chunk", file_id |-> id, start |-> start, duration |-> duration,
                   status |-> 200, samples |-> chunk[1], body |-> ToBytes(chunk[1]),
                   sample_count |-> Len(chunk[1])]
        /\ UNCHANGED <<storeVars, sessionVars>>

GetSpikesRoute(id, threshold, start, end) ==
    LET spikes == LoaderGetSpikes(waveforms, id, threshold, start, end)
    IN  /\ response = NoResponse
        /\ response' = [op |-> "spikes", file_id |-> id, threshold |-> threshold,
                        start |-> start, end |-> end,
                        spikes |-> spikes, count |-> Len(spikes)]
        /\ UNCHANGED <<storeVars, sessionVars>>

GetBinaryData(id, header) ==
    /\ response = NoResponse
    /\ response' = GetBinaryDataResponse(waveforms, metadata, id, header)
    /\ UNCHANGED <<storeVars, sessionVars>>

(***************************************************************************)
(* routes/playback.py: one websocket session                               *)
(***************************************************************************)
chunk_size == 256

CmdPositions == {-256, 0, 1000}

\* a text frame from the client: not JSON at all, JSON that is no object, or
\* a JSON object with its "command" and optional "position"
Cmd(c, p) == [kind |-> "object", command |-> c, position |-> p]

ClientMessages ==
    {[kind |-> "garbage"], [kind |-> "array"]}
    \cup {Cmd(c, None) : c \in {"play", "pause", "seek", "other"}}
    \cup {Cmd(c, Some(p)) : c \in {"play", "seek"}, p \in CmdPositions}

Recording(n) == [kind |-> "ndarray", ndim |-> 1, data |-> [i \in 1..n |-> i % 2]]

NoMessage == [type |-> "none"]

ClientSend(msg) ==
    /\ pc # "terminated"
    /\ Len(inbox) < MaxInbox
    /\ inbox' = Append(inbox, msg)
    /\ UNCHANGED <<storeVars, response, pc, file_id, position, playing, total_length,
                   sampling_rate, sent, nMetadata, nChunks, nErrors,
                   lastSeek, chunksSinceCmd, repositioned, cmdInRange>>

\* lines 20-23: where the coroutine goes once the error message is sent
AfterNotFound_NoReturn == "poll"

AfterNotFound == "terminated"

\* lines 15-39: accept, look the file up, send the metadata or the error
Accept ==
    /\ pc = "accept"
    /\ LET md == LoaderGetMetadata(metadata, file_id)
       IN  IF md = None
           THEN /\ sent' = [type |-> "error", error |-> "File not found"]
                /\ nErrors' = nErrors + 1
                /\ pc' = AfterNotFound
                /\ UNCHANGED <<nMetadata, position, playing, total_length, sampling_rate>>
           ELSE /\ sent' = [type |-> "metadata", metadata |-> md[1]]
                /\ nMetadata' = nMetadata + 1
                /\ sampling_rate' = md[1].sampling_rate
                /\ position' = 0
                /\ total_length' = md[1].length
                /\ playing' = FALSE
                /\ pc' = "poll"
                /\ UNCHANGED nErrors
    /\ UNCHANGED <<storeVars, response, file_id, inbox, nChunks,
                   lastSeek, chunksSinceCmd, repositioned, cmdInRange>>

\* lines 44-61: wait_for(receive_text(), timeout) runs out
PollTimeout ==
    /\ pc = "poll"
    /\ inbox = <<>>
    /\ pc' = "stream"
    /\ UNCHANGED <<storeVars, response, file_id, position, playing, total_length,
                   sampling_rate, inbox, sent, nMetadata, nChunks, nErrors,
                   lastSeek, chunksSinceCmd, repositioned, cmdInRange>>

\* data.get("position", default)
GetPosition(data, default) == IF data.position = None THEN default ELSE data.position[1]

\* a seek, or a play that carries a position, assigns the cursor
SetsPosition(data) ==
    data.command = "seek" \/ (data.command = "play" /\ data.position # None)

\* lines 44-58: a frame is received and the command applied
PollReceive ==
    /\ pc = "poll"
    /\ inbox # <<>>
    /\ LET data == Head(inbox)
       IN  /\ inbox' = Tail(inbox)
           /\ lastSeek' = IF data.kind = "object" /\ data.command = "seek"
                          THEN Some(GetPosition(data, 0)) ELSE None
           /\ chunksSinceCmd' = 0
           /\ IF data.kind # "object"
              THEN \* json.loads or data.get raises; it is no asyncio.TimeoutError,
                   \* so lines 88-90 log it and close the socket
                   /\ pc' = "terminated"
                   /\ UNCHANGED <<position, playing, repositioned, cmdInRange>>
              ELSE /\ pc' = "stream"
                   /\ playing' = CASE data.command = "play" -> TRUE
                                   [] data.command = "pause" -> FALSE
                                   [] OTHER -> playing
                   /\ position' = CASE data.command = "play" -> GetPosition(data, position)
                                    [] data.command = "seek" -> GetPosition(data, 0)
                                    [] OTHER -> position
                   /\ repositioned' = (repositioned \/ SetsPosition(data))
                   /\ cmdInRange' = (cmdInRange /\ (SetsPosition(data) =>
                                         (position' >= 0 /\ position' <= total_length)))
    /\ UNCHANGED <<storeVars, response, file_id, total_length, sampling_rate,
                   sent, nMetadata, nChunks, nErrors>>

StreamGuard_NoEndCheck(pos, len) == TRUE

StreamGuard(pos, len) == pos < len

NextPosition_Unmoved(pos) == pos

NextPosition(pos) == pos + chunk_size

\* lines 64-84: emit one chunk when playing and not at the end, then sleep
Stream ==
    /\ pc = "stream"
    /\ LET chunk == LoaderGetChunk(waveforms, file_id, position, chunk_size)
       IN  IF playing /\ StreamGuard(position, total_length) /\ chunk # None
           THEN /\ nChunks < MaxChunks
                /\ sent' = [type |-> "chunk", samples |-> chunk[1], position |-> position,
                            timestamp |-> [num |-> position, den |-> sampling_rate]]
                /\ position' = NextPosition(position)
                /\ nChunks' = nChunks + 1
                /\ chunksSinceCmd' = Min(chunksSinceCmd + 1, 2)
           ELSE UNCHANGED <<sent, position, nChunks, chunksSinceCmd>>
    /\ pc' = "poll"
    /\ UNCHANGED <<storeVars, response, file_id, playing, total_length, sampling_rate,
                   inbox, nMetadata, nErrors, lastSeek, repositioned, cmdInRange>>

\* lines 86-87: the transport reports that the client is gone
Disconnect ==
    /\ pc # "terminated"
    /\ pc' = "terminated"
    /\ UNCHANGED <<storeVars, response, file_id, position, playing, total_length,
                   sampling_rate, inbox, sent, nMetadata, nChunks, nErrors,
                   lastSeek, chunksSinceCmd, repositioned, cmdInRange>>

(***************************************************************************)
(* Specifications                                                          *)
(***************************************************************************)
NoSession ==
    /\ pc = "terminated"
    /\ file_id = "f1"
    /\ position = 0
    /\ playing = FALSE
    /\ total_length = 0
    /\ sampling_rate = 0
    /\ inbox = <<>>
    /\ sent = NoMessage
    /\ nMetadata = 0
    /\ nChunks = 0
    /\ nErrors = 0
    /\ lastSeek = None
    /\ chunksSinceCmd = 0
    /\ repositioned = FALSE
    /\ cmdInRange = TRUE

\* the stores one ingestion of a one-dimensional array under "f1" leaves
ReadStores == {LoadFromPickleResult(EmptyStore, "f1", a).store : a \in Arrays1D(MaxLen)}

\* ingestion
InitStore ==
    /\ waveforms = EmptyStore.waveforms
    /\ metadata = EmptyStore.metadata
    /\ response = NoResponse
    /\ NoSession

NextStore ==
    \/ \E id \in FileIds, data \in PickleInputs : LoadFromPickle(id, data)
    \/ \E id \in FileIds : GetMetadataRoute(id)
    \/ ResponseDelivered

SpecStore == InitStore /\ [][NextStore]_vars

\* chunk and spike reads of a stored recording
InitRead ==
    /\ \E st \in ReadStores : waveforms = st.waveforms /\ metadata = st.metadata
    /\ response = NoResponse
    /\ NoSession

NextLoader ==
    \/ \E id \in FileIds, start \in Starts, duration \in Durations :
          GetChunkRoute(id, start, duration)
    \/ \E id \in FileIds, threshold \in Thresholds, start \in Starts, end \in Ends :
          GetSpikesRoute(id, threshold, start, end)
    \/ ResponseDelivered

SpecLoader == InitRead /\ [][NextLoader]_vars

\* binary transfer with an optional Range header
NextRange ==
    \/ \E id \in FileIds, header \in Headers : GetBinaryData(id, header)
    \/ ResponseDelivered

SpecRange == InitRead /\ [][NextRange]_vars

\* one playback session over a stored recording
InitPlayback ==
    /\ \E n \in {ShortLen, LongLen} :
          LET st == LoadFromPickleResult(EmptyStore, "f1", Recording(n)).store
          IN  waveforms = st.waveforms /\ metadata = st.metadata
    /\ response = NoResponse
    /\ pc = "accept"
    /\ file_id \in FileIds
    /\ position = 0
    /\ playing = FALSE
    /\ total_length = 0
    /\ sampling_rate = 0
    /\ inbox = <<>>
    /\ sent = NoMessage
    /\ nMetadata = 0
    /\ nChunks = 0
    /\ nErrors = 0
    /\ lastSeek = None
    /\ chunksSinceCmd = 0
    /\ repositioned = FALSE
    /\ cmdInRange = TRUE

NextPlayback ==
    \/ \E msg \in ClientMessages : ClientSend(msg)
    \/ Accept
    \/ PollTimeout
    \/ PollReceive
    \/ Stream
    \/ Disconnect

SpecPlayback == InitPlayback /\ [][NextPlayback]_vars

(***************************************************************************)
(* Properties                                                              *)
(***************************************************************************)
InLoop == nMetadata = 1

\* C1: in a session that starts Idle at position 0, as long as no seek and no
\* play with a position was received, the k-th chunk emitted has position
\* 256*(k-1) (the first one 0) and after N emissions the cursor is 256*N; and
\* the first chunk emitted after a seek{position: p} was received has
\* position p (p = 1000 included; 0 when the seek carries none), whatever
\* the cursor was before.
C1_PlaybackPositions ==
    /\ (InLoop /\ ~repositioned) =>
          /\ position = chunk_size * nChunks
          /\ nChunks >= 1 => (sent.type = "chunk" /\ sent.position = chunk_size * (nChunks - 1))
    /\ (lastSeek # None /\ chunksSinceCmd = 1) =>
          (sent.type = "chunk" /\ sent.position = lastSeek[1])

\* a seek to 1000 arrived after two chunks or more and the next chunk went out
C1_SeekMidStream ==
    /\ lastSeek = Some(1000)
    /\ chunksSinceCmd = 1
    /\ nChunks >= 3
    /\ sent.type = "chunk"
    /\ sent.position = 1000
    /\ Len(sent.samples) = chunk_size

\* C2 as stated: in every state of a session in its loop the cursor satisfies
\* 0 <= position <= length of the recording.
C2_CursorWithinRecording == InLoop => (0 <= position /\ position <= total_length)

\* C2 amended: if every position a play or seek command supplied is within
\* [0, length], the cursor satisfies 0 <= position < length + 256.
C2_CursorBounded ==
    (InLoop /\ cmdInRange) => (0 <= position /\ position < total_length + chunk_size)

\* the loop has advanced the cursor past the end after an in-range seek
C2_Overshoot ==
    /\ InLoop
    /\ cmdInRange
    /\ repositioned
    /\ nChunks >= 1
    /\ position > total_length

\* C3: receiving a control message that is no command envelope leaves the
\* session running, with its playing flag and its position unchanged.
C3_MalformedIsIgnored ==
    [][(pc = "poll" /\ inbox # <<>> /\ Head(inbox).kind # "object" /\ inbox' = Tail(inbox))
         => (pc' # "terminated" /\ playing' = playing /\ position' = position)]_vars

\* the samples of w at indices [start, min(start + duration, L))
ExpectedChunk(w, start, duration) ==
    LET n == IF start < Len(w) THEN Min(start + duration, Len(w)) - start ELSE 0
    IN  [i \in 1..n |-> w[start + i]]

\* C4: for a stored recording of length L, start >= 0 and duration >= 0,
\* get_chunk returns exactly the samples at [start, min(start+duration, L)):
\* min(duration, L - start) of them when start < L and none when start >= L,
\* never more than duration, and no error.
C4_ChunkSlice ==
    (response.op = "chunk" /\ response.file_id \in DOMAIN waveforms
     /\ response.start >= 0 /\ response.duration >= 0) =>
        LET w == waveforms[response.file_id]
            L == Len(w)
        IN  /\ response.status = 200
            /\ response.samples = ExpectedChunk(w, response.start, response.duration)
            /\ Len(response.samples) =
                  (IF response.start < L THEN Min(response.duration, L - response.start) ELSE 0)
            /\ Len(response.samples) <= response.duration
            /\ response.sample_count = Len(response.samples)

\* a chunk cut short by the end of the recording
C4_ClampedChunk ==
    /\ response.op = "chunk"
    /\ response.file_id \in DOMAIN waveforms
    /\ response.start > 0
    /\ response.start + response.duration > Len(waveforms[response.file_id])
    /\ Len(response.samples) >= 2
    /\ Len(response.samples) < response.duration

\* C5: for a stored recording, get_chunk returns an empty sequence whenever
\* start < 0 and whenever duration <= 0.
C5_EmptyOutsideRange ==
    (response.op = "chunk" /\ response.file_id \in DOMAIN waveforms
     /\ (response.start < 0 \/ response.duration <= 0)) =>
        response.samples = <<>>

\* the absolute indices in [start, end) where a run of crossing samples begins
Onsets(w, threshold, start, end) ==
    {i \in start..(end - 1) : w[i + 1] > threshold /\ (i = start \/ w[i] <= threshold)}

\* C6: for a stored recording and 0 <= start <= end <= length, get_spikes
\* returns exactly the ascending list of the indices i in [start, end) with
\* sample[i] > threshold and (i = start or sample[i-1] <= threshold); it is
\* strictly increasing and every index reported crosses the threshold.
C6_SpikeOnsets ==
    (response.op = "spikes" /\ response.file_id \in DOMAIN waveforms) =>
        LET w   == waveforms[response.file_id]
            end == IF response.end = None THEN Len(w) ELSE response.end[1]
            sp  == response.spikes
        IN  (0 <= response.start /\ response.start <= end /\ end <= Len(w)) =>
               /\ \A k \in 1..Len(sp) : sp[k] \in Onsets(w, response.threshold, response.start, end)
               /\ \A i \in Onsets(w, response.threshold, response.start, end) :
                      \E k \in 1..Len(sp) : sp[k] = i
               /\ \A k \in 1..(Len(sp) - 1) : sp[k] < sp[k + 1]
               /\ \A k \in 1..Len(sp) : w[sp[k] + 1] > response.threshold
               /\ response.count = Len(sp)

\* two spikes from a positive start, the first one a run of two crossings
C6_MergedRun ==
    /\ response.op = "spikes"
    /\ response.file_id \in DOMAIN waveforms
    /\ response.start = 1
    /\ response.end = Some(5)
    /\ response.spikes = <<1, 4>>
    /\ waveforms[response.file_id][3] > response.threshold

\* C7: a Range request answered with 206 carries the encoded bytes at offsets
\* [start, end] inclusive, end - start + 1 of them, and the Content-Range
\* bytes start-end/totalBytes describes that payload.
C7_PartialContent ==
    (response.op = "data" /\ response.status = 206) =>
        LET r    == response.content_range[1]
            full == ToBytes(waveforms[response.file_id])
        IN  /\ r.total = Len(full)
            /\ Len(response.body) = r.end - r.start + 1
            /\ response.body = [i \in 1..(r.end - r.start + 1) |-> full[r.start + i]]

\* the Range header read as two optional integers, each with an optional
\* sign, around a separator
SignedInt(s) == IsInt(s) \/ (Len(s) >= 2 /\ s[1] = "-" /\ IsInt(Tail(s)))

SignedValue(s) == IF s[1] = "-" THEN 0 - IntOf(Tail(s)) ELSE IntOf(s)

RangeSplits(text) ==
    {k \in 1..Len(text) :
        /\ text[k] = "-"
        /\ (k = 1 \/ SignedInt(SubSeq(text, 1, k - 1)))
        /\ (k = Len(text) \/ SignedInt(SubSeq(text, k + 1, Len(text))))}

RangeStart(text, k) == IF k = 1 THEN 0 ELSE SignedValue(SubSeq(text, 1, k - 1))

\* C8: on a known recording, a Range header whose start is < 0 or >=
\* totalBytes is answered with 416, and a header that cannot be parsed as
\* two integers around a separator is answered with 400.
C8_RangeFailuresClassified ==
    (response.op = "data" /\ response.file_id \in DOMAIN metadata
     /\ response.header # None /\ response.header[1] # <<>>) =>
        LET text  == StripUnit(response.header[1])
            total == Len(ToBytes(waveforms[response.file_id]))
        IN  /\ RangeSplits(text) = {} => response.status = 400
            /\ \A k \in RangeSplits(text) :
                  (RangeStart(text, k) < 0 \/ RangeStart(text, k) >= total)
                     => response.status = 416

\* C9: the first server message of a session precedes any chunk; for a known
\* file id it is the metadata, sent exactly once whatever follows; for an
\* unknown file id it is the error File not found, after which the session is
\* terminated without entering the loop: no metadata and no chunk is sent.
C9_OpeningMessage ==
    /\ nMetadata + nErrors <= 1
    /\ (nMetadata + nErrors = 0) => (nChunks = 0 /\ sent = NoMessage)
    /\ pc \in {"poll", "stream"} => nMetadata = 1
    /\ (nMetadata = 1 /\ nChunks = 0) => sent.type = "metadata"
    /\ file_id \in DOMAIN metadata => nErrors = 0
    /\ file_id \notin DOMAIN metadata =>
          /\ nMetadata = 0
          /\ nChunks = 0
          /\ pc \in {"accept", "terminated"}
          /\ nErrors = 1 => (pc = "terminated" /\ sent = [type |-> "error", error |-> "File not found"])

\* a session that sent its metadata, took commands and streamed chunks
C9_MetadataThenChunks ==
    /\ nMetadata = 1
    /\ nErrors = 0
    /\ nChunks >= 2
    /\ repositioned
    /\ ~playing

\* C10: after any sequence of ingestions the ids with stored samples are the
\* ids with stored metadata, metadata.length is the number of stored samples,
\* and an ingestion that fails leaves the store exactly as it was.
C10_StoreConsistent ==
    /\ DOMAIN waveforms = DOMAIN metadata
    /\ \A id \in DOMAIN waveforms \cap DOMAIN metadata :
          metadata[id].length = Len(waveforms[id])
    /\ (response.op = "load" /\ response.raised) =>
          (waveforms = response.before.waveforms /\ metadata = response.before.metadata)

====
